---- MODULE Spec2Model ----
(***************************************************************************)
(* A model of isign/bundle.py: the bundle classes (Bundle, Framework, App, *)
(* AppEx), the Info.plist property store with its lazily captured          *)
(* baseline, the bundle identifier rewrite, the provisioning profile       *)
(* loader and the recursive resign of a bundle tree.                       *)
(*                                                                         *)
(* Python values are encoded as follows.                                   *)
(*   - a str is a sequence of one-character strings;                       *)
(*   - a dict is a function whose domain is the set of its keys;           *)
(*   - None is the empty sequence and any other value x of an attribute    *)
(*     that may be None is the one-element sequence <<x>>;                 *)
(*   - a file that may be missing is encoded the same way: <<>> when the   *)
(*     path does not exist, <<content>> when it does.                      *)
(* A directory of the bundle tree is a number (a node of Nodes).           *)
(***************************************************************************)
EXTENDS Integers, Sequences, FiniteSets, TLC

VARIABLES
    cfg,                \* what the code only reads: directory entries, executables,
                        \* dylibs, the provisioning profile, the caller's arguments
    plist,              \* plist[n]: the Info.plist file of directory n
    embedded,           \* embedded[n]: the embedded.mobileprovision file of n
    entfile,            \* entfile[n]: the Entitlements.plist file of n
    signed,             \* the files the signer has signed
    cls,                \* cls[n]: class of the object built for n, "" when none
    attrs,              \* attrs[n]: the optional attributes the object of n has
    info,               \* self.info
    orig_info,          \* self.orig_info
    seal_path,          \* self.seal_path
    new_appid,          \* self.new_appid
    new_provision,      \* self.new_provision
    new_provision_path, \* self.new_provision_path
    stack,              \* the call stack of resign()/sign() frames
    error,              \* the exception that reached the top-level caller, "" when none
    steps,              \* steps[n]: the calls resign() of n has made so far
    calls,              \* the direct method calls made on the object of directory 0
    writes              \* number of biplist.writePlist calls on an Info.plist

vars == <<cfg, plist, embedded, entfile, signed, cls, attrs, info, orig_info,
          seal_path, new_appid, new_provision, new_provision_path, stack,
          error, steps, calls, writes>>

None == <<>>
Some(x) == <<x>>

\* ------------------------------------------------------------------------
\* Bounds of the model.

\* Longest old bundle identifier (in characters) drawn for the rewrite.
MaxOldLen == 3
\* Longest candidate identifier (in characters) drawn for the rewrite.
MaxNewLen == 5
\* Number of change_bundle_id() calls made in a row on one object.
MaxRewrites == 2
\* Number of update_info_props() calls made in a row on one object.
MaxCalls == 3
\* Number of places in which a drawn bundle tree differs from the default tree.
MaxAnomalies == 2
\* Number of update_info_props()/change_bundle_id() calls mixed on one App.
MaxOps == 2

\* ------------------------------------------------------------------------
\* str.split("."), ".".join() and the strings the code names.

DOT == "."
STAR == <<"*">>
ISIGN == <<"i", "s", "i", "g", "n">>

RECURSIVE FirstDot(_, _)
FirstDot(s, i) ==
    IF i > Len(s) THEN 0
    ELSE IF s[i] = DOT THEN i
    ELSE FirstDot(s, i + 1)

RECURSIVE Split(_)
Split(s) ==
    LET d == FirstDot(s, 1)
    IN IF d = 0 THEN <<s>>
       ELSE <<SubSeq(s, 1, d - 1)>> \o Split(SubSeq(s, d + 1, Len(s)))

RECURSIVE Join(_)
Join(segs) ==
    IF Len(segs) = 0 THEN <<>>
    ELSE IF Len(segs) = 1 THEN segs[1]
    ELSE segs[1] \o <<DOT>> \o Join(Tail(segs))

Min(a, b) == IF a < b THEN a ELSE b

\* ------------------------------------------------------------------------
\* App.change_bundle_id: the comparison loop and the rewrite.

\* The for/else loop of lines 223-230 from index i (1-based here):
\* "return" when the method returns inside the loop or in its else branch,
\* "rewrite" when control reaches line 231.
RECURSIVE CompareLoop(_, _, _, _)
CompareLoop(oldids, newids, i, num) ==
    IF i > num
    THEN IF Len(oldids) = Len(newids) THEN "return" ELSE "rewrite"
    ELSE IF newids[i] = STAR THEN "return"
    ELSE IF newids[i] # oldids[i] THEN "rewrite"
    ELSE CompareLoop(oldids, newids, i + 1, num)

\* The variant of the loop that forgets the wildcard test of line 224.
RECURSIVE CompareLoopNoStar(_, _, _, _)
CompareLoopNoStar(oldids, newids, i, num) ==
    IF i > num
    THEN IF Len(oldids) = Len(newids) THEN "return" ELSE "rewrite"
    ELSE IF newids[i] # oldids[i] THEN "rewrite"
    ELSE CompareLoopNoStar(oldids, newids, i + 1, num)

\* newid.split(".")[1:]
StripTeam(newid) == Tail(Split(newid))

\* Lines 231-233: every "*" segment becomes "isign".
Materialize(newids) ==
    [i \in 1..Len(newids) |-> IF newids[i] = STAR THEN ISIGN ELSE newids[i]]

\* A rewrite that keeps the team prefix (forgets the [1:] of line 221).
RewriteIdKeepTeam(oldid, newid) ==
    LET oldids == Split(oldid)
        newids == Split(newid)
        num == Min(Len(oldids), Len(newids))
    IN IF CompareLoop(oldids, newids, 1, num) = "return"
       THEN [changed |-> FALSE, id |-> oldid]
       ELSE [changed |-> TRUE, id |-> Join(Materialize(newids))]

\* A rewrite whose loop has no wildcard exit.
RewriteIdNoStar(oldid, newid) ==
    LET oldids == Split(oldid)
        newids == StripTeam(newid)
        num == Min(Len(oldids), Len(newids))
    IN IF CompareLoopNoStar(oldids, newids, 1, num) = "return"
       THEN [changed |-> FALSE, id |-> oldid]
       ELSE [changed |-> TRUE, id |-> Join(Materialize(newids))]

\* Lines 220-234 as a function of the old identifier and the candidate:
\* whether CFBundleIdentifier is assigned, and its value afterwards.
RewriteId(oldid, newid) ==
    LET oldids == Split(oldid)
        newids == StripTeam(newid)
        num == Min(Len(oldids), Len(newids))
    IN IF CompareLoop(oldids, newids, 1, num) = "return"
       THEN [changed |-> FALSE, id |-> oldid]
       ELSE [changed |-> TRUE, id |-> Join(Materialize(newids))]

\* ------------------------------------------------------------------------
\* Info.plist: the keys the code names, and the property store.

ID == "CFBundleIdentifier"
EXE == "CFBundleExecutable"
PLATFORMS == "CFBundleSupportedPlatforms"
URLTYPES == "CFBundleURLTypes"
URLNAME == "CFBundleURLName"
IPHONEOS == "iPhoneOS"

\* A variant that only looks for the key, not for iPhoneOS in its value.
is_info_plist_native_key_only(p) ==
    PLATFORMS \in DOMAIN p

is_info_plist_native(p) ==
    /\ PLATFORMS \in DOMAIN p
    /\ IPHONEOS \in p[PLATFORMS]

\* A variant of the renaming loop that renames every named entry.
RenameUrlTypesAll(types, old_bundle_id, new_bundle_id) ==
    [k \in 1..Len(types) |->
        IF URLNAME \in DOMAIN types[k]
        THEN [types[k] EXCEPT ![URLNAME] = new_bundle_id]
        ELSE types[k]]

\* Lines 80-85: the CFBundleURLTypes list after the renaming loop.
RenameUrlTypes(types, old_bundle_id, new_bundle_id) ==
    [k \in 1..Len(types) |->
        IF URLNAME \in DOMAIN types[k] /\ types[k][URLNAME] = old_bundle_id
        THEN [types[k] EXCEPT ![URLNAME] = new_bundle_id]
        ELSE types[k]]

\* Lines 80-85: whether the renaming loop sets `changed`.
RenameSetsChanged(types, old_bundle_id) ==
    \E k \in 1..Len(types) :
        URLNAME \in DOMAIN types[k] /\ types[k][URLNAME] = old_bundle_id

\* Lines 72-74: the condition under which the renaming loop runs.
RenameApplies(i, new_props) ==
    /\ ID \in DOMAIN new_props
    /\ URLTYPES \in DOMAIN i
    /\ URLTYPES \notin DOMAIN new_props

\* Lines 87-93: the mapping after the assignment loop.
Assign(i, new_props) ==
    [key \in DOMAIN i \cup DOMAIN new_props |->
        IF key \in DOMAIN new_props THEN new_props[key] ELSE i[key]]

\* Lines 87-93: whether the assignment loop sets `changed`.
AssignSetsChanged(i, new_props) ==
    \E key \in DOMAIN new_props : key \notin DOMAIN i \/ i[key] # new_props[key]

\* A variant of update_info_props that drops the baseline as soon as the
\* mapping equals it again.
update_info_props_drop_on_revert(i, o, new_props) ==
    LET o1 == IF o = None THEN Some(i) ELSE o
        rename == RenameApplies(i, new_props)
        i1 == IF rename
              THEN [i EXCEPT ![URLTYPES] =
                        RenameUrlTypes(i[URLTYPES], i[ID], new_props[ID])]
              ELSE i
        changed == \/ rename /\ RenameSetsChanged(i[URLTYPES], i[ID])
                   \/ AssignSetsChanged(i1, new_props)
        i2 == Assign(i1, new_props)
    IN [info |-> i2,
        orig_info |-> IF changed /\ o1 # Some(i2) THEN o1 ELSE None,
        wrote |-> changed]

\* A variant of update_info_props that takes a new baseline in every call.
update_info_props_recapture(i, o, new_props) ==
    LET rename == RenameApplies(i, new_props)
        i1 == IF rename
              THEN [i EXCEPT ![URLTYPES] =
                        RenameUrlTypes(i[URLTYPES], i[ID], new_props[ID])]
              ELSE i
        changed == \/ rename /\ RenameSetsChanged(i[URLTYPES], i[ID])
                   \/ AssignSetsChanged(i1, new_props)
    IN [info |-> Assign(i1, new_props),
        orig_info |-> IF changed THEN Some(i) ELSE None,
        wrote |-> changed]

\* Bundle.update_info_props on the mapping i with baseline o: the mapping and
\* the baseline afterwards, and whether biplist.writePlist was called.
update_info_props(i, o, new_props) ==
    LET o1 == IF o = None THEN Some(i) ELSE o
        rename == RenameApplies(i, new_props)
        i1 == IF rename
              THEN [i EXCEPT ![URLTYPES] =
                        RenameUrlTypes(i[URLTYPES], i[ID], new_props[ID])]
              ELSE i
        changed == \/ rename /\ RenameSetsChanged(i[URLTYPES], i[ID])
                   \/ AssignSetsChanged(i1, new_props)
    IN [info |-> Assign(i1, new_props),
        orig_info |-> IF changed THEN o1 ELSE None,
        wrote |-> changed]

\* Bundle.info_props_changed
info_props_changed(o) == o # None

\* Bundle.info_prop_changed
info_prop_changed(i, o, key) ==
    IF o = None \/ DOMAIN o[1] = {} THEN FALSE
    ELSE IF key \in DOMAIN i /\ key \in DOMAIN o[1] /\ i[key] = o[1][key] THEN FALSE
    ELSE TRUE

\* ------------------------------------------------------------------------
\* The provisioning profile: a file is a sequence of chunks, two of which
\* are the markers load_provision_data looks for.

BEGINSTR == "<?xml version="
ENDSTR == "</plist>"
BODY == "plist body"
JUNK == "pkcs7"

\* str.find on chunks: the 0-based position of the first occurrence, or -1.
RECURSIVE Find(_, _, _)
Find(data, chunk, i) ==
    IF i > Len(data) THEN -1
    ELSE IF data[i] = chunk THEN i - 1
    ELSE Find(data, chunk, i + 1)

\* A variant of line 249 that only asserts the opening marker.
MarkersFoundBeginOnly(data) ==
    Find(data, BEGINSTR, 1) # -1

\* Line 249: the assertion on the two positions.
MarkersFound(data) ==
    Find(data, BEGINSTR, 1) # -1 /\ Find(data, ENDSTR, 1) # -1

\* Line 250: profile_data[begin_pos: end_pos + 8], the closing marker included.
Slice(data) ==
    SubSeq(data, Find(data, BEGINSTR, 1) + 1, Find(data, ENDSTR, 1) + 1)

\* biplist.readPlistFromString accepts a whole plist document only.
Decodable(doc) == doc = <<BEGINSTR, BODY, ENDSTR>>

\* The credential a well-formed profile decodes to.
Credential(appid) ==
    ("Entitlements" :> ("application-identifier" :> appid))

\* ------------------------------------------------------------------------
\* The bundle tree.  Directory 0 is the bundle handed to the caller; the
\* other directories sit under Frameworks/ or PlugIns/ of their parent.

Nodes == 0..6

Parent(n) == CASE n \in {1, 2, 3} -> 0
               [] n \in {4, 5} -> 1
               [] n = 6 -> 3
               [] OTHER -> -1

\* The subdirectory of Parent(n) in which n sits.
Slot(n) == CASE n \in {1, 2, 4} -> "Frameworks"
             [] n \in {3, 5, 6} -> "PlugIns"
             [] OTHER -> ""

\* The files of a directory that may be its main executable: the one named
\* by CFBundleExecutable and the one named after the directory.
DECLARED == "Exe"
BASENAME == "Base"

\* The path the caller passes as provision_path.
PROVISION == "new.mobileprovision"

AppClasses == {"App", "AppEx"}

\* The optional attributes App.__init__ and load_provision_data set.
AppAttrs == {"new_appid", "entitlements_path", "provision_path"}
LoadedAttrs == {"new_provision", "new_provision_path"}

EmptyDict == [x \in {} |-> x]

\* An Info.plist of a native bundle with identifier id.
NativePlist(id) ==
    (ID :> id) @@ (EXE :> DECLARED) @@ (PLATFORMS :> {IPHONEOS})

\* A well-formed provisioning profile file, and the default identifiers.
GoodProfile == <<JUNK, BEGINSTR, BODY, ENDSTR, JUNK>>
IdAB == <<"a", ".", "b">>
IdABX == <<"a", ".", "b", ".", "x">>
AppIdWild == <<"T", ".", "a", ".", "*">>

\* The tree with only directory 0, used when a single object is exercised.
LoneCfg ==
    [kind |-> "App", override |-> None, provision |-> Some(GoodProfile),
     appid |-> AppIdWild,
     present |-> [n \in Nodes |-> n = 0],
     files |-> [n \in Nodes |-> {DECLARED}],
     appex |-> [n \in Nodes |-> TRUE],
     fwdylibs |-> [n \in Nodes |-> 0],
     rootdylibs |-> [n \in Nodes |-> 0]]

\* The state in which no object exists and nothing has run.
Blank ==
    /\ entfile = [n \in Nodes |-> None]
    /\ signed = {}
    /\ cls = [n \in Nodes |-> ""]
    /\ attrs = [n \in Nodes |-> {}]
    /\ info = [n \in Nodes |-> EmptyDict]
    /\ orig_info = [n \in Nodes |-> None]
    /\ seal_path = [n \in Nodes |-> None]
    /\ new_appid = [n \in Nodes |-> None]
    /\ new_provision = [n \in Nodes |-> None]
    /\ new_provision_path = [n \in Nodes |-> None]
    /\ stack = <<>>
    /\ error = ""
    /\ steps = [n \in Nodes |-> <<>>]
    /\ calls = <<>>
    /\ writes = 0

\* ------------------------------------------------------------------------
\* App.change_bundle_id as a step on the object of directory n.

\* Line 216 reads self.new_provision, which only load_provision_data sets.
change_bundle_id_raises(n) ==
    new_appid[n] = None /\ "new_provision" \notin attrs[n]

\* Lines 214-219: the candidate identifier.
Candidate(n) ==
    IF new_appid[n] = None
    THEN new_provision[n][1]["Entitlements"]["application-identifier"]
    ELSE new_appid[n][1]

\* A variant that also renames the CFBundleURLTypes entries named after the
\* old identifier, as update_info_props does.
change_bundle_id_renaming(n) ==
    LET r == RewriteId(info[n][ID], Candidate(n))
        renamed == IF URLTYPES \in DOMAIN info[n]
                   THEN [info[n] EXCEPT ![URLTYPES] =
                            RenameUrlTypes(@, info[n][ID], r.id)]
                   ELSE info[n]
    IN /\ new_appid' = [new_appid EXCEPT ![n] = Some(Candidate(n))]
       /\ info' = [info EXCEPT ![n] =
                      IF r.changed THEN [renamed EXCEPT ![ID] = r.id] ELSE @]
       /\ plist' = IF r.changed
                   THEN [plist EXCEPT ![n] = Some(info'[n])]
                   ELSE plist
       /\ writes' = IF r.changed THEN writes + 1 ELSE writes

\* A variant that does not keep the candidate in self.new_appid (forgets
\* line 217).
change_bundle_id_forgets(n) ==
    LET r == RewriteId(info[n][ID], Candidate(n))
    IN /\ new_appid' = new_appid
       /\ info' = [info EXCEPT ![n] =
                      IF r.changed THEN [@ EXCEPT ![ID] = r.id] ELSE @]
       /\ plist' = IF r.changed
                   THEN [plist EXCEPT ![n] = Some(info'[n])]
                   ELSE plist
       /\ writes' = IF r.changed THEN writes + 1 ELSE writes

\* A variant that assigns the identifier without writing Info.plist.
change_bundle_id_unsaved(n) ==
    LET r == RewriteId(info[n][ID], Candidate(n))
    IN /\ new_appid' = [new_appid EXCEPT ![n] = Some(Candidate(n))]
       /\ info' = [info EXCEPT ![n] =
                      IF r.changed THEN [@ EXCEPT ![ID] = r.id] ELSE @]
       /\ plist' = plist
       /\ writes' = writes

\* Lines 220-235 on the object of directory n, the write included.
change_bundle_id(n) ==
    LET r == RewriteId(info[n][ID], Candidate(n))
    IN /\ new_appid' = [new_appid EXCEPT ![n] = Some(Candidate(n))]
       /\ info' = [info EXCEPT ![n] =
                      IF r.changed THEN [@ EXCEPT ![ID] = r.id] ELSE @]
       /\ plist' = IF r.changed
                   THEN [plist EXCEPT ![n] = Some(info'[n])]
                   ELSE plist
       /\ writes' = IF r.changed THEN writes + 1 ELSE writes

\* ------------------------------------------------------------------------
\* SpecRewrite: change_bundle_id called on an App whose credential is
\* loaded, for every old identifier and every candidate within the bounds.

Alphabet == {"a", "*", DOT}
StrsUpTo(k) == UNION {[1..m -> Alphabet] : m \in 0..k}

ComAcmeApp == <<"c","o","m",".","a","c","m","e",".","A","p","p">>
TeamComOtherApp ==
    <<"T","E","A","M",".","c","o","m",".","o","t","h","e","r",".","A","p","p">>
TeamComAcmeApp ==
    <<"T","E","A","M",".","c","o","m",".","a","c","m","e",".","A","p","p">>
TeamComAcmeStar ==
    <<"T","E","A","M",".","c","o","m",".","a","c","m","e",".","*">>

\* The (old identifier, candidate) pairs drawn.
RewritePairs ==
    (StrsUpTo(MaxOldLen) \X StrsUpTo(MaxNewLen))
    \cup ({ComAcmeApp} \X {TeamComOtherApp, TeamComAcmeApp, TeamComAcmeStar})

\* The Info.plist the rewritten App starts with: one URL type named after
\* the identifier and one without a name.
RewritePlist(oldid) ==
    NativePlist(oldid) @@
    (URLTYPES :> << (URLNAME :> oldid) @@ ("CFBundleURLSchemes" :> "s"),
                    ("CFBundleURLSchemes" :> "t") >>)

InitRewrite ==
    \E pair \in RewritePairs, explicit \in BOOLEAN :
        /\ Blank
        /\ cfg = [LoneCfg EXCEPT
                    !.override = IF explicit THEN Some(pair[2]) ELSE None,
                    !.appid = IF explicit THEN AppIdWild ELSE pair[2]]
        /\ plist = [n \in Nodes |->
                      IF n = 0 THEN Some(RewritePlist(pair[1])) ELSE None]
        /\ embedded = [n \in Nodes |-> None]

RewriteSetup ==
    /\ cls[0] = ""
    /\ cls' = [cls EXCEPT ![0] = "App"]
    /\ attrs' = [attrs EXCEPT ![0] = AppAttrs \cup LoadedAttrs]
    /\ info' = [info EXCEPT ![0] = plist[0][1]]
    /\ new_appid' = [new_appid EXCEPT ![0] = cfg.override]
    /\ new_provision' = [new_provision EXCEPT ![0] = Some(Credential(cfg.appid))]
    /\ new_provision_path' = [new_provision_path EXCEPT ![0] = Some(PROVISION)]
    /\ UNCHANGED <<cfg, plist, embedded, entfile, signed, orig_info, seal_path,
                   stack, error, steps, calls, writes>>

RewriteCall ==
    /\ cls[0] = "App"
    /\ Len(calls) < MaxRewrites
    /\ ~change_bundle_id_raises(0)
    /\ change_bundle_id(0)
    /\ calls' = Append(calls, [op |-> "change_bundle_id",
                               before |-> info[0][ID],
                               candidate |-> Candidate(0),
                               wrote |-> writes' # writes])
    /\ UNCHANGED <<cfg, embedded, entfile, signed, cls, attrs, orig_info,
                   seal_path, new_provision, new_provision_path, stack, error,
                   steps>>

NextRewrite == RewriteSetup \/ RewriteCall

SpecRewrite == InitRewrite /\ [][NextRewrite]_vars

\* The first change_bundle_id call of a SpecRewrite behaviour has returned
\* and no second one has been made.
FirstRewriteDone == Len(calls) = 1 /\ calls[1].op = "change_bundle_id"

\* The candidate of the claims: the explicit override, or else the
\* application-identifier of the credential.
ClaimCandidate ==
    IF cfg.override # None THEN cfg.override[1] ELSE cfg.appid

FirstWildcard(N) ==
    IF \E i \in 1..Len(N) : N[i] = <<"*">>
    THEN CHOOSE i \in 1..Len(N) :
            N[i] = <<"*">> /\ \A j \in 1..(i - 1) : N[j] # <<"*">>
    ELSE 0

\* The first rewrite ran on an old identifier whose leading segments equal
\* the segments of N before N's first wildcard, and that has at least
\* `further` segments after them.
WildcardPrefixCase(further) ==
    /\ FirstRewriteDone
    /\ LET O == Split(calls[1].before)
           N == Tail(Split(ClaimCandidate))
           k == FirstWildcard(N)
       IN /\ k > 0
          /\ Len(O) >= (k - 1) + further
          /\ \A j \in 1..(k - 1) : O[j] = N[j]

\* C4 as stated: with the first wildcard of N at position k and the old
\* identifier starting with the segments of N before it, whatever the number
\* of further segments of the old identifier, including none, the rewrite
\* leaves the identifier unchanged and writes nothing.
C4_AsStated ==
    WildcardPrefixCase(0) =>
        /\ info[0][ID] = calls[1].before
        /\ ~calls[1].wrote
        /\ writes = 0

\* C4 amended: the same, for an old identifier that has at least one
\* further segment after the matched prefix (the segment the wildcard
\* stands for).
C4_WildcardCompatible ==
    WildcardPrefixCase(1) =>
        /\ info[0][ID] = calls[1].before
        /\ ~calls[1].wrote
        /\ writes = 0
        /\ plist[0] = Some(RewritePlist(calls[1].before))

\* C4 witness: "com.acme.App" under candidate "TEAM.com.acme.*" from the
\* credential is still "com.acme.App" and nothing was written.
C4_Witness ==
    /\ WildcardPrefixCase(1)
    /\ calls[1].before = ComAcmeApp
    /\ cfg.override = None
    /\ cfg.appid = TeamComAcmeStar
    /\ info[0][ID] = ComAcmeApp
    /\ writes = 0

\* ------------------------------------------------------------------------
\* SpecStore: update_info_props called up to MaxCalls times on a Bundle
\* built from a directory whose Info.plist is drawn from StorePlists.

IdA == <<"a">>
IdB == <<"b">>
KEY == "K"
V0 == "v0"
V1 == "v1"

\* The CFBundleURLTypes entries drawn: without a name, or named a or b.
UrlEntries ==
    {("CFBundleURLSchemes" :> "s")}
    \cup {(URLNAME :> id) @@ ("CFBundleURLSchemes" :> "s") : id \in {IdA, IdB}}

UrlLists == UNION {[1..m -> UrlEntries] : m \in 0..2}

\* The dicts with at most the key k, bound to one of vals.
OptKey(k, vals) == {EmptyDict} \cup {(k :> v) : v \in vals}

StorePlists ==
    {NativePlist(IdA) @@ k @@ u :
        k \in OptKey(KEY, {V0}), u \in OptKey(URLTYPES, UrlLists)}

\* The new_props arguments drawn.
NewProps ==
    {i @@ k : i \in OptKey(ID, {IdA, IdB}), k \in OptKey(KEY, {V0, V1})}
    \cup {i @@ (URLTYPES :> <<(URLNAME :> IdB) @@ ("CFBundleURLSchemes" :> "s")>>) :
            i \in OptKey(ID, {IdB})}

InitStore ==
    \E p \in StorePlists :
        /\ Blank
        /\ cfg = LoneCfg
        /\ plist = [n \in Nodes |-> IF n = 0 THEN Some(p) ELSE None]
        /\ embedded = [n \in Nodes |-> None]

\* Bundle(path) on directory 0 (lines 41-51), which is a native bundle here.
StoreSetup ==
    /\ cls[0] = ""
    /\ plist[0] # None
    /\ is_info_plist_native(plist[0][1])
    /\ cls' = [cls EXCEPT ![0] = "Bundle"]
    /\ info' = [info EXCEPT ![0] = plist[0][1]]
    /\ orig_info' = [orig_info EXCEPT ![0] = None]
    /\ seal_path' = [seal_path EXCEPT ![0] = None]
    /\ UNCHANGED <<cfg, plist, embedded, entfile, signed, attrs, new_appid,
                   new_provision, new_provision_path, stack, error, steps,
                   calls, writes>>

\* bundle.update_info_props(new_props), the write of line 96 included.
UpdateCall ==
    \E new_props \in NewProps :
        LET r == update_info_props(info[0], orig_info[0], new_props)
        IN /\ cls[0] = "Bundle"
           /\ Len(calls) < MaxCalls
           /\ info' = [info EXCEPT ![0] = r.info]
           /\ orig_info' = [orig_info EXCEPT ![0] = r.orig_info]
           /\ plist' = IF r.wrote THEN [plist EXCEPT ![0] = Some(r.info)] ELSE plist
           /\ writes' = IF r.wrote THEN writes + 1 ELSE writes
           /\ calls' = Append(calls, [op |-> "update_info_props",
                                      new_props |-> new_props,
                                      before |-> info[0],
                                      wrote |-> r.wrote])
           /\ UNCHANGED <<cfg, embedded, entfile, signed, cls, attrs, seal_path,
                          new_appid, new_provision, new_provision_path, stack,
                          error, steps>>

NextStore == StoreSetup \/ UpdateCall

SpecStore == InitStore /\ [][NextStore]_vars

\* The last two update_info_props calls were update({k: v1}) and then
\* update({k: v0}), on an object built with k bound to v0 # v1, and nothing
\* else was called.
RevertOf(k) ==
    /\ Len(calls) = 2
    /\ DOMAIN calls[1].new_props = {k}
    /\ DOMAIN calls[2].new_props = {k}
    /\ k \in DOMAIN calls[1].before
    /\ calls[1].new_props[k] # calls[1].before[k]
    /\ calls[2].new_props[k] = calls[1].before[k]

RevertKeys == {ID, KEY}

SameTwice ==
    /\ Len(calls) >= 2
    /\ calls[Len(calls)].new_props = calls[Len(calls) - 1].new_props
    /\ Cardinality(DOMAIN calls[Len(calls)].new_props) = 1

\* C6: when update({K: v1}) is called twice in a row, the second call
\* performs no write to the property file and hasChanges() is false
\* afterwards.
C6_SecondUpdateIsNoOp ==
    SameTwice =>
        /\ ~calls[Len(calls)].wrote
        /\ ~info_props_changed(orig_info[0])

\* Some requested key/value pair of the last call differed from the mapping
\* the call found (key absent, or value different).
LastCallDiffers ==
    LET c == calls[Len(calls)]
    IN \E key \in DOMAIN c.new_props :
          key \notin DOMAIN c.before \/ c.before[key] # c.new_props[key]

\* C7: in every update(newProps) call the property file is written only if
\* at least one pair of newProps differs from the current mapping; if every
\* requested pair already equals the current mapping, no write occurs and no
\* baseline is held afterwards.
C7_WriteOnlyOnDifference ==
    (Len(calls) >= 1 /\ calls[Len(calls)].op = "update_info_props") =>
        /\ calls[Len(calls)].wrote => LastCallDiffers
        /\ ~LastCallDiffers =>
              (~calls[Len(calls)].wrote /\ orig_info[0] = None)

\* ------------------------------------------------------------------------
\* Spec: resign of the bundle tree rooted at directory 0.

disk == <<plist, embedded, entfile, signed>>
objs == <<cls, attrs, info, orig_info, seal_path, new_appid, new_provision,
          new_provision_path>>

Top == stack[Len(stack)]
Below == SubSeq(stack, 1, Len(stack) - 1)
SetTop(f) == [stack EXCEPT ![Len(stack)] = f]
Running(pc) == stack # <<>> /\ Top.pc = pc

\* A frame of resign()/sign() on the object of directory n.
Frame(n, pc, provision_path) ==
    [node |-> n, pc |-> pc, todo |-> {}, provision_path |-> provision_path]

\* A variant in which every class runs the credential steps.
CallAlwaysLoad(n, c, provision_path) == Frame(n, "load", provision_path)

\* The frame a call of resign() on an object of class c starts with:
\* App.resign (line 255) or Bundle.resign (line 170).
Call(n, c, provision_path) ==
    Frame(n, IF c \in AppClasses THEN "load" ELSE "sign", provision_path)

Step(n, name) == steps' = [steps EXCEPT ![n] = Append(@, name)]

\* The frames left when exc propagates out of the frames above s: the
\* try/except of lines 130-136 catches NotMatched around the whole of
\* Framework(...) and framework.resign(...); nothing else is caught.
RECURSIVE Unwind(_, _)
Unwind(s, exc) ==
    IF s = <<>> THEN <<>>
    ELSE IF exc = "NotMatched" /\ s[Len(s)].pc = "frameworks" THEN s
    ELSE Unwind(SubSeq(s, 1, Len(s) - 1), exc)

\* The method running in the top frame raises exc.
Raise(exc) ==
    /\ stack' = Unwind(Below, exc)
    /\ error' = IF Unwind(Below, exc) = <<>> THEN exc ELSE error

\* Lines 44-49: Bundle.__init__ raises NotMatched on directory n.
NotMatched(n) ==
    plist[n] = None \/ ~is_info_plist_native(plist[n][1])

\* Bundle.__init__ / Framework.__init__ / App.__init__ on directory n.
Construct(n, c, appid) ==
    /\ cls' = [cls EXCEPT ![n] = c]
    /\ info' = [info EXCEPT ![n] = plist[n][1]]
    /\ orig_info' = [orig_info EXCEPT ![n] = None]
    /\ seal_path' = [seal_path EXCEPT ![n] = None]
    /\ attrs' = [attrs EXCEPT ![n] = IF c \in AppClasses THEN AppAttrs ELSE {}]
    /\ new_appid' = [new_appid EXCEPT ![n] = IF c \in AppClasses THEN appid ELSE None]

\* Bundle.get_executable_path: the file name resolved, and whether it exists.
ExecutableName(n) ==
    IF EXE \in DOMAIN info[n] THEN info[n][EXE] ELSE BASENAME

\* A variant that returns the path without testing that it exists.
get_executable_path_unchecked(n) == FALSE

\* Lines 62-64: the resolved path does not exist.
get_executable_path_raises(n) == ExecutableName(n) \notin cfg.files[n]

\* The files the signer is applied to.
ExecFile(n) == [kind |-> "executable", node |-> n, name |-> ExecutableName(n)]
DylibFile(n, where, k) == [kind |-> where, node |-> n, name |-> k]
FrameworkDylibs(n) == {DylibFile(n, "Frameworks", k) : k \in 1..cfg.fwdylibs[n]}
RootDylibs(n) == {DylibFile(n, "root", k) : k \in 1..cfg.rootdylibs[n]}

Children(n, slot) ==
    {c \in Nodes : Parent(c) = n /\ Slot(c) = slot /\ cfg.present[c]}

\* os.listdir(frameworks_path): the directories and the dylib files.
FrameworkEntries(n) ==
    {[kind |-> "dir", id |-> c] : c \in Children(n, "Frameworks")}
    \cup {[kind |-> "dylib", id |-> k] : k \in 1..cfg.fwdylibs[n]}

\* glob(join(plugins_path, '*.appex'))
AppexPaths(n) == {c \in Children(n, "PlugIns") : cfg.appex[c]}

\* The caller builds the object for directory 0: App(path, new_appid),
\* AppEx(path, new_appid) or Framework(path).
Classify ==
    /\ cls[0] = "" /\ error = "" /\ stack = <<>> /\ calls = <<>>
    /\ IF NotMatched(0)
       THEN /\ error' = "NotMatched"
            /\ UNCHANGED objs
       ELSE /\ Construct(0, cfg.kind, cfg.override)
            /\ UNCHANGED <<error, new_provision, new_provision_path>>
    /\ calls' = <<[op |-> "classify"]>>
    /\ UNCHANGED <<cfg, disk, stack, steps, writes>>

\* The caller calls resign(signer[, provision_path]) on the object.
Resign ==
    /\ cls[0] # "" /\ error = "" /\ stack = <<>>
    /\ calls = <<[op |-> "classify"]>>
    /\ calls' = Append(calls, [op |-> "resign"])
    /\ stack' = <<Call(0, cls[0], PROVISION)>>
    /\ UNCHANGED <<cfg, disk, objs, error, steps, writes>>

\* App.load_provision_data / AppEx.load_provision_data (line 255).
LoadProvision ==
    /\ Running("load")
    /\ LET n == Top.node
           data == cfg.provision[1]
       IN /\ Step(n, "LoadCredential")
          /\ IF cfg.provision = None
             THEN IF cls[n] = "AppEx"
                  THEN /\ stack' = SetTop([Top EXCEPT !.pc = "chid"])
                       /\ UNCHANGED <<error, attrs, new_provision, new_provision_path>>
                  ELSE /\ Raise("IOError")
                       /\ UNCHANGED <<attrs, new_provision, new_provision_path>>
             ELSE IF ~MarkersFound(data)
             THEN /\ Raise("AssertionError")
                  /\ UNCHANGED <<attrs, new_provision, new_provision_path>>
             ELSE IF ~Decodable(Slice(data))
             THEN /\ Raise("InvalidPlistException")
                  /\ UNCHANGED <<attrs, new_provision, new_provision_path>>
             ELSE /\ new_provision' =
                        [new_provision EXCEPT ![n] = Some(Credential(cfg.appid))]
                  /\ new_provision_path' =
                        [new_provision_path EXCEPT ![n] = Some(Top.provision_path)]
                  /\ attrs' = [attrs EXCEPT ![n] = @ \cup LoadedAttrs]
                  /\ stack' = SetTop([Top EXCEPT !.pc = "chid"])
                  /\ UNCHANGED error
    /\ UNCHANGED <<cfg, disk, cls, info, orig_info, seal_path, new_appid, calls,
                   writes>>

\* App.change_bundle_id (line 256).
ChangeBundleId ==
    /\ Running("chid")
    /\ LET n == Top.node
       IN /\ Step(n, "RewriteIdentifier")
          /\ IF change_bundle_id_raises(n)
             THEN /\ Raise("AttributeError")
                  /\ UNCHANGED <<plist, info, new_appid, writes>>
             ELSE /\ change_bundle_id(n)
                  /\ stack' = SetTop([Top EXCEPT !.pc = "copy"])
                  /\ UNCHANGED error
    /\ UNCHANGED <<cfg, embedded, entfile, signed, cls, attrs, orig_info,
                   seal_path, new_provision, new_provision_path, calls>>

\* App.copy_provision / AppEx.copy_provision (line 257).
CopyProvision ==
    /\ Running("copy")
    /\ LET n == Top.node
       IN /\ Step(n, "CopyCredential")
          /\ IF cls[n] = "AppEx" /\ embedded[n] = None
             THEN /\ stack' = SetTop([Top EXCEPT !.pc = "ent"])
                  /\ UNCHANGED <<error, embedded>>
             ELSE IF cfg.provision = None
             THEN /\ Raise("IOError")
                  /\ UNCHANGED embedded
             ELSE /\ embedded' = [embedded EXCEPT ![n] = cfg.provision]
                  /\ stack' = SetTop([Top EXCEPT !.pc = "ent"])
                  /\ UNCHANGED error
    /\ UNCHANGED <<cfg, plist, entfile, signed, objs, calls, writes>>

\* App.create_entitlements / AppEx.create_entitlements (line 258).
CreateEntitlements ==
    /\ Running("ent")
    /\ LET n == Top.node
       IN /\ Step(n, "WriteEntitlements")
          /\ IF cls[n] = "AppEx" /\ embedded[n] = None
             THEN /\ attrs' = [attrs EXCEPT ![n] = @ \ {"entitlements_path"}]
                  /\ stack' = SetTop([Top EXCEPT !.pc = "sign"])
                  /\ UNCHANGED <<error, entfile>>
             ELSE IF "new_provision" \notin attrs[n]
             THEN /\ Raise("AttributeError")
                  /\ UNCHANGED <<attrs, entfile>>
             ELSE /\ entfile' = [entfile EXCEPT ![n] =
                                    Some(new_provision[n][1]["Entitlements"])]
                  /\ stack' = SetTop([Top EXCEPT !.pc = "sign"])
                  /\ UNCHANGED <<error, attrs>>
    /\ UNCHANGED <<cfg, plist, embedded, signed, cls, info, orig_info, seal_path,
                   new_appid, new_provision, new_provision_path, calls, writes>>

\* Bundle.sign is entered (lines 120-127): the Frameworks directory, when
\* it exists, is listed.
EnterSign ==
    /\ Running("sign")
    /\ Step(Top.node, "ResignChildren")
    /\ stack' = SetTop([Top EXCEPT !.pc = "frameworks",
                                   !.todo = FrameworkEntries(Top.node)])
    /\ UNCHANGED <<cfg, disk, objs, error, calls, writes>>

\* One iteration of the loop of lines 127-136, on any remaining entry.
FrameworkEntry ==
    /\ Running("frameworks")
    /\ \E e \in Top.todo :
          LET rest == [Top EXCEPT !.todo = @ \ {e}]
          IN IF e.kind = "dylib" \/ NotMatched(e.id)
             THEN /\ stack' = SetTop(rest)
                  /\ UNCHANGED objs
             ELSE /\ Construct(e.id, "Framework", None)
                  /\ stack' = Append(SetTop(rest), Call(e.id, "Framework", ""))
                  /\ UNCHANGED <<new_provision, new_provision_path>>
    /\ UNCHANGED <<cfg, disk, error, steps, calls, writes>>

\* Line 138, after the loop: sign_dylibs on the Frameworks directory.
SignFrameworkDylibs ==
    /\ Running("frameworks")
    /\ Top.todo = {}
    /\ signed' = signed \cup FrameworkDylibs(Top.node)
    /\ stack' = SetTop([Top EXCEPT !.pc = "rootdylibs"])
    /\ UNCHANGED <<cfg, plist, embedded, entfile, objs, error, steps, calls,
                   writes>>

\* Lines 141-146: sign_dylibs on the bundle directory, then the PlugIns
\* directory, when it exists, is globbed.
SignRootDylibs ==
    /\ Running("rootdylibs")
    /\ signed' = signed \cup RootDylibs(Top.node)
    /\ stack' = SetTop([Top EXCEPT !.pc = "plugins",
                                   !.todo = AppexPaths(Top.node)])
    /\ UNCHANGED <<cfg, plist, embedded, entfile, objs, error, steps, calls,
                   writes>>

\* One iteration of the loop of lines 147-152, on any remaining path.
PluginEntry ==
    /\ Running("plugins")
    /\ \E e \in Top.todo :
          LET n == Top.node
              rest == [Top EXCEPT !.todo = @ \ {e}]
          IN IF plist[e] = None
             THEN /\ stack' = SetTop(rest)
                  /\ UNCHANGED <<objs, error>>
             ELSE IF "new_appid" \notin attrs[n]
             THEN /\ Raise("AttributeError")
                  /\ UNCHANGED objs
             ELSE IF NotMatched(e)
             THEN /\ Raise("NotMatched")
                  /\ UNCHANGED objs
             ELSE /\ Construct(e, "AppEx", new_appid[n])
                  /\ UNCHANGED <<new_provision, new_provision_path>>
                  /\ IF "new_provision_path" \notin attrs[n]
                     THEN Raise("AttributeError")
                     ELSE /\ stack' = Append(SetTop(rest),
                                 Call(e, "AppEx", new_provision_path[n][1]))
                          /\ UNCHANGED error
    /\ UNCHANGED <<cfg, disk, steps, calls, writes>>

\* A variant in which the seal is built while extensions are still waiting.
SealPointEarly == Running("plugins")

\* Line 160: the loop over the extensions is over.
SealPoint == Running("plugins") /\ Top.todo = {}

\* Lines 162-163, after the loop: code_resources.make_seal.
MakeSeal ==
    /\ SealPoint
    /\ LET n == Top.node
       IN IF get_executable_path_raises(n)
          THEN /\ Raise("Exception")
               /\ UNCHANGED <<seal_path, steps>>
          ELSE /\ seal_path' = [seal_path EXCEPT ![n] = Some(n)]
               /\ Step(n, "BuildSeal")
               /\ stack' = SetTop([Top EXCEPT !.pc = "executable"])
               /\ UNCHANGED error
    /\ UNCHANGED <<cfg, disk, cls, attrs, info, orig_info, new_appid,
                   new_provision, new_provision_path, calls, writes>>

\* Lines 165-166: the main executable is signed and sign() returns.
SignExecutable ==
    /\ Running("executable")
    /\ LET n == Top.node
       IN IF get_executable_path_raises(n)
          THEN /\ Raise("Exception")
               /\ UNCHANGED <<signed, steps>>
          ELSE /\ signed' = signed \cup {ExecFile(n)}
               /\ Step(n, "SignExecutable")
               /\ stack' = Below
               /\ UNCHANGED error
    /\ UNCHANGED <<cfg, plist, embedded, entfile, objs, calls, writes>>

Next ==
    \/ Classify
    \/ Resign
    \/ LoadProvision
    \/ ChangeBundleId
    \/ CopyProvision
    \/ CreateEntitlements
    \/ EnterSign
    \/ FrameworkEntry
    \/ SignFrameworkDylibs
    \/ SignRootDylibs
    \/ PluginEntry
    \/ MakeSeal
    \/ SignExecutable

\* ------------------------------------------------------------------------
\* The bundle trees and calls Spec starts from.  A world is a tree as found
\* on disk together with the caller's arguments.

IdF == <<"f">>
AppIdAC == <<"T", ".", "a", ".", "c">>
AppIdAB == <<"T", ".", "a", ".", "b">>
OldProfile == <<JUNK, BEGINSTR, "old body", ENDSTR>>
NoBeginProfile == <<JUNK, BODY, ENDSTR>>
NoEndProfile == <<JUNK, BEGINSTR, BODY>>
EndFirstProfile == <<ENDSTR, BEGINSTR, BODY>>

DefaultId(n) == CASE n = 0 -> IdAB
                  [] Slot(n) = "PlugIns" -> IdABX
                  [] OTHER -> IdF

\* An app with two frameworks, one extension, one dylib under Frameworks/
\* and one in its own directory, resigned with a wildcard profile.
DefaultWorld ==
    [kind |-> "App", override |-> None, provision |-> Some(GoodProfile),
     appid |-> AppIdWild,
     present |-> [n \in Nodes |-> n \in 0..3],
     files |-> [n \in Nodes |-> {DECLARED}],
     appex |-> [n \in Nodes |-> TRUE],
     fwdylibs |-> [n \in Nodes |-> IF n = 0 THEN 1 ELSE 0],
     rootdylibs |-> [n \in Nodes |-> IF n = 0 THEN 1 ELSE 0],
     plist |-> [n \in Nodes |-> Some(NativePlist(DefaultId(n)))],
     embedded |-> [n \in Nodes |-> None]]

Without(p, k) == [x \in DOMAIN p \ {k} |-> p[x]]

\* What the Info.plist of directory n may be instead of a native one.
PlistVariants(n) ==
    LET p == NativePlist(DefaultId(n))
    IN {None,
        Some(Without(p, PLATFORMS)),
        Some([p EXCEPT ![PLATFORMS] = {"MacOSX"}]),
        Some(Without(p, EXE))}

\* The directories whose Info.plist and executable are varied.
ShapedNodes == 0..3

\* The worlds that differ from w in one place.
Changes(w) ==
    {[w EXCEPT !.kind = k] : k \in {"AppEx", "Framework"}}
    \cup {[w EXCEPT !.override = Some(AppIdAC)]}
    \cup {[w EXCEPT !.present[n] = ~@] : n \in Nodes \ {0}}
    \cup UNION {{[w EXCEPT !.plist[n] = v] : v \in PlistVariants(n)} :
                    n \in ShapedNodes}
    \cup {[w EXCEPT !.files[n] = v] : n \in ShapedNodes, v \in {{}, {BASENAME}}}
    \cup {[w EXCEPT !.appex[n] = ~@] : n \in {3, 5, 6}}
    \cup {[w EXCEPT !.fwdylibs[n] = 1 - @] : n \in {0, 1}}
    \cup {[w EXCEPT !.rootdylibs[n] = 1 - @] : n \in {0, 1}}
    \cup {[w EXCEPT !.embedded[3] = Some(OldProfile)]}

\* The worlds that differ from the default one in at most k places.
RECURSIVE Within(_)
Within(k) ==
    IF k = 0 THEN {DefaultWorld}
    ELSE Within(k - 1) \cup UNION {Changes(w) : w \in Within(k - 1)}

TreeWorlds == Within(MaxAnomalies)

\* An app or extension with at most one extension inside, for every
\* combination of override, profile file and embedded profiles.
CredWorlds ==
    {[DefaultWorld EXCEPT
        !.kind = k, !.override = o, !.provision = pr, !.appid = a,
        !.present = [n \in Nodes |-> n = 0 \/ (n = 3 /\ x)],
        !.fwdylibs = [n \in Nodes |-> 0],
        !.rootdylibs = [n \in Nodes |-> 0],
        !.embedded = [n \in Nodes |-> IF n = 0 THEN e0
                                      ELSE IF n = 3 THEN e3 ELSE None]] :
        k \in AppClasses,
        o \in {None, Some(AppIdAB), Some(AppIdAC)},
        pr \in {None, Some(GoodProfile), Some(NoBeginProfile),
                Some(NoEndProfile), Some(EndFirstProfile)},
        a \in {AppIdWild, AppIdAC},
        x \in BOOLEAN,
        e0 \in {None, Some(OldProfile)},
        e3 \in {None, Some(OldProfile)}}

Worlds == TreeWorlds \cup CredWorlds

\* What the code only reads of a world, and the files as found.
CfgOf(w) ==
    [kind |-> w.kind, override |-> w.override, provision |-> w.provision,
     appid |-> w.appid, present |-> w.present, files |-> w.files,
     appex |-> w.appex, fwdylibs |-> w.fwdylibs, rootdylibs |-> w.rootdylibs,
     plist |-> [n \in Nodes |-> IF w.present[n] THEN w.plist[n] ELSE None],
     embedded |-> [n \in Nodes |-> IF w.present[n] THEN w.embedded[n] ELSE None]]

Init ==
    \E w \in Worlds :
        /\ Blank
        /\ cfg = CfgOf(w)
        /\ plist = CfgOf(w).plist
        /\ embedded = CfgOf(w).embedded

Spec == Init /\ [][Next]_vars

\* ------------------------------------------------------------------------
\* Claims about Spec.

Packages == {n \in Nodes : cls[n] # ""}

\* The signer has been applied to the main executable of directory n.
ExecutableSigned(n) ==
    \E f \in signed : f.kind = "executable" /\ f.node = n

\* The entries of p that are packages: the directories under Frameworks/
\* with a native Info.plist and the *.appex directories under PlugIns/ with
\* an Info.plist.
NestedPackages(p) ==
    {c \in Nodes :
        /\ Parent(c) = p /\ cfg.present[c] /\ plist[c] # None
        /\ \/ /\ Slot(c) = "Frameworks"
              /\ PLATFORMS \in DOMAIN plist[c][1]
              /\ IPHONEOS \in plist[c][1][PLATFORMS]
           \/ Slot(c) = "PlugIns" /\ cfg.appex[c]}

\* C1: in every reachable state, once the seal of a package is built every
\* nested library package and every extension package of it has completed
\* its own signature step and every dylib under its Frameworks/ and in its
\* own directory is signed; and once the main executable of a package is
\* signed its seal is built.
C1_ChildrenBeforeSealBeforeSign ==
    \A p \in Packages :
        /\ seal_path[p] # None =>
              /\ \A c \in NestedPackages(p) :
                    /\ ExecutableSigned(c)
                    /\ steps[c] # <<>>
                    /\ steps[c][Len(steps[c])] = "SignExecutable"
              /\ \A k \in 1..cfg.fwdylibs[p] :
                    [kind |-> "Frameworks", node |-> p, name |-> k] \in signed
              /\ \A k \in 1..cfg.rootdylibs[p] :
                    [kind |-> "root", node |-> p, name |-> k] \in signed
        /\ ExecutableSigned(p) => seal_path[p] # None

\* C1 witness: the seal of the app is built, its executable is not signed
\* yet, and its two frameworks, its extension and its two dylibs are signed.
C1_Witness ==
    /\ cls[0] = "App"
    /\ seal_path[0] # None
    /\ ~ExecutableSigned(0)
    /\ NestedPackages(0) = {1, 2, 3}
    /\ \A c \in {1, 2, 3} : ExecutableSigned(c)
    /\ cfg.fwdylibs[0] = 1 /\ cfg.rootdylibs[0] = 1
    /\ Cardinality(signed) = 5

AppSteps == <<"LoadCredential", "RewriteIdentifier", "CopyCredential",
              "WriteEntitlements", "ResignChildren", "BuildSeal",
              "SignExecutable">>
LibrarySteps == <<"ResignChildren", "BuildSeal", "SignExecutable">>

IsPrefix(s, t) == Len(s) <= Len(t) /\ s = SubSeq(t, 1, Len(s))

\* C2: the steps of a resign of an application package are, in this order
\* and once each, LoadCredential, RewriteIdentifier, CopyCredential,
\* WriteEntitlements, ResignChildren, BuildSeal, SignExecutable, all seven
\* when the resign succeeds; those of a library package are ResignChildren,
\* BuildSeal, SignExecutable, and a library package never gets a credential,
\* a rewritten identifier, a copied credential or an entitlements file.
C2_StepOrder ==
    \A n \in Packages :
        /\ cls[n] \in AppClasses =>
              /\ IsPrefix(steps[n], AppSteps)
              /\ ExecutableSigned(n) => steps[n] = AppSteps
        /\ cls[n] = "Framework" =>
              /\ IsPrefix(steps[n], LibrarySteps)
              /\ ExecutableSigned(n) => steps[n] = LibrarySteps
              /\ attrs[n] \cap LoadedAttrs = {}
              /\ new_provision[n] = None
              /\ plist[n] = cfg.plist[n]
              /\ embedded[n] = cfg.embedded[n]
              /\ entfile[n] = None

\* C2 witness: a resign of an app has succeeded after its seven steps, with
\* a framework inside that went through its three.
C2_Witness ==
    /\ stack = <<>> /\ error = ""
    /\ cls[0] = "App" /\ steps[0] = AppSteps
    /\ cls[1] = "Framework" /\ steps[1] = LibrarySteps
    /\ ExecutableSigned(0) /\ ExecutableSigned(1)

\* C8: an application-extension whose trust-container file is not present
\* resigns without raising and without writing an entitlements file,
\* whatever its directory holds and whether or not an override was given.
C8_AppExWithoutProfile ==
    (cfg.kind = "AppEx" /\ cfg.provision = None /\ cls[0] = "AppEx") =>
        /\ error = ""
        /\ entfile[0] = None

\* The profile passed by the caller exists and lacks a marker.
MarkerMissing ==
    /\ cfg.provision # None
    /\ \/ \A i \in 1..Len(cfg.provision[1]) : cfg.provision[1][i] # BEGINSTR
       \/ \A i \in 1..Len(cfg.provision[1]) : cfg.provision[1][i] # ENDSTR

\* C9: loading a credential from a file that lacks the opening or the
\* closing marker fails with the malformed-credential error (the assertion
\* of line 249) and retains nothing: no credential and no profile path on
\* any object, and no later step of the resign runs: no identifier rewrite,
\* no copy, no entitlements file, no signature.
C9_MalformedCredential ==
    (MarkerMissing /\ cfg.kind \in AppClasses) =>
        /\ \A n \in Nodes :
              /\ new_provision[n] = None
              /\ new_provision_path[n] = None
              /\ attrs[n] \cap LoadedAttrs = {}
              /\ IsPrefix(steps[n], <<"LoadCredential">>)
        /\ steps[0] # <<>> =>
              /\ error = "AssertionError"
              /\ stack = <<>>
        /\ plist = cfg.plist
        /\ embedded = cfg.embedded
        /\ entfile = [n \in Nodes |-> None]
        /\ signed = {}
        /\ writes = 0

\* C9 witness: an app was resigned with a profile without closing marker
\* and the resign ended in the assertion error after its first step.
C9_Witness ==
    /\ cfg.provision = Some(NoEndProfile)
    /\ cls[0] = "App"
    /\ steps[0] = <<"LoadCredential">>
    /\ error = "AssertionError"

\* The Info.plist found in directory n lists the native platform.
FoundNative(n) ==
    /\ cfg.plist[n] # None
    /\ PLATFORMS \in DOMAIN cfg.plist[n][1]
    /\ IPHONEOS \in cfg.plist[n][1][PLATFORMS]

\* C10: classifying directory 0 fails with NotMatched when it has no
\* Info.plist or its Info.plist lacks the native-platform markers, changing
\* no file, and succeeds otherwise; and no object at all is ever built for
\* a directory without a native Info.plist.
C10_Classify ==
    /\ calls = <<[op |-> "classify"]>> =>
          /\ plist = cfg.plist /\ embedded = cfg.embedded
          /\ entfile = [n \in Nodes |-> None] /\ signed = {} /\ writes = 0
          /\ IF FoundNative(0)
             THEN error = "" /\ cls[0] = cfg.kind
             ELSE error = "NotMatched" /\ cls[0] = ""
    /\ \A n \in Nodes : cls[n] # "" => FoundNative(n)

\* C10 witness: directory 0 has an Info.plist for another platform and its
\* classification has failed.
C10_Witness ==
    /\ calls = <<[op |-> "classify"]>>
    /\ cfg.plist[0] # None
    /\ PLATFORMS \in DOMAIN cfg.plist[0][1]
    /\ error = "NotMatched"

\* ------------------------------------------------------------------------
\* Claims about the scans of Bundle.sign.

\* The caller's resign() call has been made / has returned / has returned
\* without an exception.
ResignCalled == Len(calls) = 2
ResignReturned == ResignCalled /\ stack = <<>>
ResignSucceeded == ResignReturned /\ error = ""

\* The entries the two scans of p's sign() classify: every directory under
\* Frameworks/, and every *.appex directory under PlugIns/ that has an
\* Info.plist.
ScannedEntries(p) ==
    {c \in Nodes :
        /\ Parent(c) = p /\ cfg.present[c]
        /\ \/ Slot(c) = "Frameworks"
           \/ Slot(c) = "PlugIns" /\ cfg.appex[c] /\ cfg.plist[c] # None}

\* C11: a NotMatched classification failure of an entry of the Frameworks
\* scan or of the PlugIns scan never reaches the top-level caller of
\* resign(): the entry is skipped and the parent goes on to its seal and its
\* executable; and a resign that returns without exception has signed the
\* executable of every package it built (nothing else is swallowed).
C11_SkipNotApplicable ==
    /\ ResignCalled => error # "NotMatched"
    /\ ResignSucceeded => \A n \in Packages : ExecutableSigned(n)

\* ------------------------------------------------------------------------
\* Claims about the baseline and the URL types, under SpecStore.

\* The first call of the latest unbroken run of update_info_props calls
\* that wrote the property file (the last call being one of them).
RECURSIVE RunStart(_)
RunStart(j) ==
    IF j > 1 /\ calls[j - 1].wrote THEN RunStart(j - 1) ELSE j

\* C12 as stated: whenever a baseline is held it is the mapping as loaded
\* at construction.
C12_AsStated ==
    orig_info[0] # None =>
        /\ Len(calls) >= 1
        /\ orig_info[0] = Some(calls[1].before)

\* C12 amended: a baseline is held exactly when the last update wrote the
\* property file, and it is then the mapping as it was just before the
\* first update of the latest unbroken run of updates that wrote; an update
\* never replaces a baseline that is held when it starts.
C12_BaselineOfRun ==
    /\ orig_info[0] # None <=> (Len(calls) >= 1 /\ calls[Len(calls)].wrote)
    /\ orig_info[0] # None =>
          orig_info[0] = Some(calls[RunStart(Len(calls))].before)

\* C12 witness: a changing update, an update that changes nothing, and a
\* changing update again: the baseline held is the mapping the third call
\* found, which the first call had already modified.
C12_Witness ==
    /\ Len(calls) = 3
    /\ calls[1].wrote /\ ~calls[2].wrote /\ calls[3].wrote
    /\ calls[3].before # calls[1].before
    /\ orig_info[0] = Some(calls[3].before)

\* The last update_info_props call.
LastCall == calls[Len(calls)]

\* C13: when the last update set CFBundleIdentifier on a mapping that had
\* CFBundleURLTypes and did not set CFBundleURLTypes itself, every entry
\* whose CFBundleURLName equalled the old identifier now carries the new
\* identifier as its name and every other entry (another name, or none) is
\* as it was; when the update set CFBundleURLTypes itself, the list is
\* exactly the supplied one.
C13_UrlNamesFollowIdentifier ==
    (Len(calls) >= 1 /\ LastCall.op = "update_info_props") =>
        LET b == LastCall.before
            np == LastCall.new_props
        IN /\ (ID \in DOMAIN np /\ URLTYPES \in DOMAIN b
                  /\ URLTYPES \notin DOMAIN np) =>
                /\ URLTYPES \in DOMAIN info[0]
                /\ Len(info[0][URLTYPES]) = Len(b[URLTYPES])
                /\ \A k \in 1..Len(b[URLTYPES]) :
                      LET old == b[URLTYPES][k]
                          new == info[0][URLTYPES][k]
                      IN IF URLNAME \in DOMAIN old /\ old[URLNAME] = b[ID]
                         THEN new = [old EXCEPT ![URLNAME] = np[ID]]
                         ELSE new = old
           /\ URLTYPES \in DOMAIN np => info[0][URLTYPES] = np[URLTYPES]
           /\ ID \notin DOMAIN np /\ URLTYPES \notin DOMAIN np
                  /\ URLTYPES \in DOMAIN b
                => info[0][URLTYPES] = b[URLTYPES]

\* C13 witness: the identifier went from a to b on a mapping whose list had
\* an entry named a followed by one without a name; the first is now named
\* b, the second is as it was.
C13_Witness ==
    /\ Len(calls) = 1
    /\ calls[1].new_props = (ID :> IdB)
    /\ URLTYPES \in DOMAIN calls[1].before
    /\ calls[1].before[URLTYPES] =
          << (URLNAME :> IdA) @@ ("CFBundleURLSchemes" :> "s"),
             ("CFBundleURLSchemes" :> "s") >>
    /\ info[0][URLTYPES] =
          << (URLNAME :> IdB) @@ ("CFBundleURLSchemes" :> "s"),
             ("CFBundleURLSchemes" :> "s") >>
    /\ info[0][ID] = IdB

\* ------------------------------------------------------------------------
\* Claims about the extensions of a package, under Spec.

\* The *.appex entries of PlugIns/ of p that have an Info.plist.
ExtensionEntries(p) ==
    {c \in Nodes : /\ Parent(c) = p /\ Slot(c) = "PlugIns" /\ cfg.present[c]
                   /\ cfg.appex[c] /\ cfg.plist[c] # None}

\* The step taken from a state in which the extensions scan of the running
\* sign() has an entry left either skips an entry without Info.plist, or
\* builds an AppEx for an entry with the identifier override of the parent
\* and starts its App-variant resign with the profile path of the parent.
ExtensionStep ==
    (Running("plugins") /\ Top.todo # {}) =>
        \/ \E e \in Top.todo :
              /\ plist[e] = None
              /\ stack' = SetTop([Top EXCEPT !.todo = @ \ {e}])
              /\ error' = error /\ cls' = cls
        \/ \E e \in Top.todo :
              /\ plist[e] # None
              /\ cls'[e] = "AppEx"
              /\ "new_appid" \in attrs[Top.node]
              /\ new_appid'[e] = new_appid[Top.node]
              /\ "new_provision_path" \in attrs[Top.node]
              /\ stack' = Append(SetTop([Top EXCEPT !.todo = @ \ {e}]),
                                 Frame(e, "load",
                                       new_provision_path[Top.node][1]))
              /\ error' = error

\* C14: for every package (App, AppEx or Framework) whose sign() reaches its
\* PlugIns directory, each entry with an Info.plist is built as an AppEx
\* with the parent's identifier override and profile path and is resigned
\* through the seven App steps before the parent's seal is built, and each
\* entry without Info.plist is skipped.
C14_ExtensionsResigned ==
    /\ [](\A p \in Packages :
            seal_path[p] # None =>
                \A c \in ExtensionEntries(p) :
                    cls[c] = "AppEx" /\ steps[c] = AppSteps)
    /\ [][ExtensionStep]_vars

\* The three calls of App.resign that AppEx overrides.
CredentialSteps == {"LoadCredential", "CopyCredential", "WriteEntitlements"}

\* C15: for an AppEx resigned with a profile path that does not exist,
\* load_provision_data, copy_provision and create_entitlements read, copy
\* and write nothing and raise nothing, whether or not the extension holds
\* an embedded.mobileprovision; and for every AppEx without
\* embedded.mobileprovision, create_entitlements writes nothing and deletes
\* entitlements_path.
C15_AppExNoOps ==
    /\ (cls[0] = "AppEx" /\ cfg.provision = None) =>
          /\ new_provision[0] = None
          /\ embedded[0] = cfg.embedded[0]
          /\ entfile[0] = None
          /\ (error # "" /\ steps[0] # <<>>) =>
                steps[0][Len(steps[0])] \notin CredentialSteps
    /\ \A n \in Nodes :
          (cls[n] = "AppEx" /\ Len(steps[n]) >= 4 /\ embedded[n] = None) =>
              /\ entfile[n] = None
              /\ "entitlements_path" \notin attrs[n]

\* ------------------------------------------------------------------------
\* Claims about a missing main executable, under Spec.

\* The main executable of directory m, as its Info.plist as found resolves
\* it, does not exist.
MissingExecutable(m) ==
    /\ cfg.present[m] /\ cfg.plist[m] # None
    /\ (IF EXE \in DOMAIN cfg.plist[m][1]
        THEN cfg.plist[m][1][EXE] ELSE BASENAME) \notin cfg.files[m]

RECURSIVE Ancestors(_)
Ancestors(n) ==
    IF Parent(n) = -1 THEN {} ELSE {Parent(n)} \cup Ancestors(Parent(n))

\* The resign has ended in the exception of get_executable_path raised by
\* the sign() of package n, the only directory without its executable.
FailedAtSealOf(n) ==
    /\ ResignReturned /\ error = "Exception"
    /\ MissingExecutable(n)
    /\ \A m \in Nodes \ {n} : ~MissingExecutable(m)

\* C16: a package whose resolved main executable does not exist never gets
\* a seal nor a signature on its executable; once the top-level resign has
\* returned, if that package was resigned at all, the resign has failed and
\* no ancestor has a seal or a signed executable either; and what was done
\* before the failure stays: the rewritten identifier in Info.plist, the
\* copied profile, the entitlements file, the signatures of the nested
\* packages and of the dylibs.
C16_MissingExecutable ==
    \A n \in Packages :
        MissingExecutable(n) =>
            /\ seal_path[n] = None
            /\ ~ExecutableSigned(n)
            /\ (ResignReturned /\ steps[n] # <<>>) =>
                  /\ error # ""
                  /\ \A a \in Ancestors(n) :
                        seal_path[a] = None /\ ~ExecutableSigned(a)
            /\ FailedAtSealOf(n) =>
                  /\ \A c \in NestedPackages(n) : ExecutableSigned(c)
                  /\ FrameworkDylibs(n) \cup RootDylibs(n) \subseteq signed
                  /\ cls[n] \in AppClasses =>
                        /\ plist[n] = Some(info[n])
                        /\ RewriteId(cfg.plist[n][1][ID],
                                     new_appid[n][1]).changed =>
                              plist[n][1][ID] # cfg.plist[n][1][ID]
                  /\ cls[n] = "App" =>
                        /\ embedded[n] = cfg.provision
                        /\ entfile[n] # None

\* C16 witness: the resign of an app without its executable has failed at
\* its seal after rewriting the identifier, copying the profile, writing
\* the entitlements and signing its frameworks, extension and dylibs.
C16_Witness ==
    /\ cls[0] = "App"
    /\ FailedAtSealOf(0)
    /\ plist[0][1][ID] # cfg.plist[0][1][ID]
    /\ embedded[0] = cfg.provision
    /\ entfile[0] # None
    /\ \A c \in {1, 2, 3} : ExecutableSigned(c)
    /\ Cardinality(signed) = 5
    /\ seal_path[0] = None

\* ------------------------------------------------------------------------
\* SpecApp: update_info_props and change_bundle_id called in any order, up
\* to MaxOps times, on an App whose credential is loaded.

TeamA == <<"T", ".", "a">>
TeamB == <<"T", ".", "b">>
TeamStar == <<"T", ".", "*">>

InitApp ==
    \E p \in StorePlists, o \in {None, Some(TeamA), Some(TeamB)},
       a \in {TeamStar, TeamB} :
        /\ Blank
        /\ cfg = [LoneCfg EXCEPT !.override = o, !.appid = a]
        /\ plist = [n \in Nodes |-> IF n = 0 THEN Some(p) ELSE None]
        /\ embedded = [n \in Nodes |-> None]

\* App(path, new_appid) on directory 0, and load_provision_data.
AppSetup == RewriteSetup

\* app.update_info_props(new_props), the write of line 96 included.
AppUpdate ==
    \E new_props \in NewProps :
        LET r == update_info_props(info[0], orig_info[0], new_props)
        IN /\ cls[0] = "App"
           /\ Len(calls) < MaxOps
           /\ info' = [info EXCEPT ![0] = r.info]
           /\ orig_info' = [orig_info EXCEPT ![0] = r.orig_info]
           /\ plist' = IF r.wrote THEN [plist EXCEPT ![0] = Some(r.info)] ELSE plist
           /\ writes' = IF r.wrote THEN writes + 1 ELSE writes
           /\ calls' = Append(calls, [op |-> "update_info_props",
                                      new_props |-> new_props,
                                      before |-> info[0],
                                      baseline |-> orig_info[0],
                                      wrote |-> r.wrote])
           /\ UNCHANGED <<cfg, embedded, entfile, signed, cls, attrs, seal_path,
                          new_appid, new_provision, new_provision_path, stack,
                          error, steps>>

\* app.change_bundle_id(), the write of line 235 included.
AppRewrite ==
    /\ cls[0] = "App"
    /\ Len(calls) < MaxOps
    /\ ~change_bundle_id_raises(0)
    /\ change_bundle_id(0)
    /\ calls' = Append(calls, [op |-> "change_bundle_id",
                               before |-> info[0],
                               baseline |-> orig_info[0],
                               wrote |-> writes' # writes])
    /\ UNCHANGED <<cfg, embedded, entfile, signed, cls, attrs, orig_info,
                   seal_path, new_provision, new_provision_path, stack, error,
                   steps>>

NextApp == AppSetup \/ AppUpdate \/ AppRewrite

SpecApp == InitApp /\ [][NextApp]_vars

\* C17: once the object is built, and after every update_info_props and
\* change_bundle_id call on it, the Info.plist file holds exactly self.info,
\* the CFBundleURLTypes entries renamed in place included.
C17_FileEqualsMapping ==
    cls[0] # "" => plist[0] = Some(info[0])

\* C17 witness: an update that renamed a URL type in place and a rewrite of
\* the identifier have both been written.
C17_Witness ==
    /\ Len(calls) = 2
    /\ calls[1].op = "update_info_props" /\ calls[1].wrote
    /\ calls[2].op = "change_bundle_id" /\ calls[2].wrote
    /\ URLTYPES \in DOMAIN calls[1].before
    /\ info[0][URLTYPES] # calls[1].before[URLTYPES]
    /\ info[0][ID] # calls[2].before[ID]
    /\ plist[0] = Some(info[0])

\* ------------------------------------------------------------------------
\* Claims about repeated rewrites, under SpecRewrite.

\* C18: a second change_bundle_id call with the same candidate leaves the
\* identifier the first call produced unchanged and writes nothing.
C18_RewriteIdempotent ==
    (Len(calls) = 2 /\ calls[2].op = "change_bundle_id") =>
        /\ calls[2].candidate = calls[1].candidate
        /\ info[0][ID] = calls[2].before
        /\ ~calls[2].wrote
        /\ writes = IF calls[1].wrote THEN 1 ELSE 0

\* ------------------------------------------------------------------------
\* Claims about the rewrite and the baseline, under SpecApp.

\* The last call was change_bundle_id and it changed only CFBundleIdentifier
\* of self.info, left self.orig_info as it was and left CFBundleURLTypes as
\* it was.
RewriteFrame ==
    /\ DOMAIN info[0] = DOMAIN LastCall.before
    /\ \A key \in DOMAIN info[0] \ {ID} : info[0][key] = LastCall.before[key]
    /\ orig_info[0] = LastCall.baseline
    /\ info_props_changed(orig_info[0]) = info_props_changed(LastCall.baseline)

LastIsRewrite == Len(calls) >= 1 /\ LastCall.op = "change_bundle_id"

\* C19 as stated: the rewrite changes only the identifier key, leaves the
\* baseline unchanged, so that hasChanges() and hasChanged(identifier key)
\* return what they returned before it, and leaves every URL type unchanged.
C19_AsStated ==
    LastIsRewrite =>
        /\ RewriteFrame
        /\ info_prop_changed(info[0], orig_info[0], ID)
              = info_prop_changed(LastCall.before, LastCall.baseline, ID)

\* C19 amended: the rewrite changes only the identifier key, leaves the
\* baseline and hence hasChanges() unchanged and leaves every URL type
\* unchanged; hasChanged(identifier key) stays false when no baseline is
\* held, and when a baseline is held it is true afterwards exactly when the
\* identifier now differs from the baseline's.
C19_RewriteBypassesBaseline ==
    LastIsRewrite =>
        /\ RewriteFrame
        /\ IF orig_info[0] = None
           THEN ~info_prop_changed(info[0], orig_info[0], ID)
           ELSE info_prop_changed(info[0], orig_info[0], ID)
                    <=> info[0][ID] # orig_info[0][1][ID]

\* C19 witness: with a baseline held after update({K: v1}) and a URL type
\* named after the identifier a, the rewrite has made the identifier b: the
\* URL type is still named a, the baseline is the one held before, and
\* hasChanged(identifier key) went from false to true.
C19_Witness ==
    /\ Len(calls) = 2
    /\ calls[1].op = "update_info_props" /\ calls[1].new_props = (KEY :> V1)
    /\ calls[2].op = "change_bundle_id" /\ calls[2].wrote
    /\ calls[2].baseline # None /\ orig_info[0] = calls[2].baseline
    /\ calls[2].before[ID] = IdA /\ info[0][ID] = IdB
    /\ URLTYPES \in DOMAIN info[0]
    /\ \E k \in 1..Len(info[0][URLTYPES]) :
          /\ URLNAME \in DOMAIN info[0][URLTYPES][k]
          /\ info[0][URLTYPES][k][URLNAME] = IdA
    /\ ~info_prop_changed(calls[2].before, calls[2].baseline, ID)
    /\ info_prop_changed(info[0], orig_info[0], ID)

\* ------------------------------------------------------------------------
\* Claims about the candidate handed to the extensions, under Spec.

\* change_bundle_id of the object of directory n has returned.
RewriteReturned(n) ==
    \/ Len(steps[n]) >= 3
    \/ \E i \in DOMAIN stack : stack[i].node = n /\ stack[i].pc = "copy"

\* C20: once change_bundle_id of an App or AppEx has returned, its
\* new_appid is set, to the explicit override or else to the
\* application-identifier of the credential, and every AppEx built under it
\* carries the same new_appid; and when that candidate has no wildcard
\* segment, after a successful resign the identifier of the top-level
\* package and of every extension resigned under it is the candidate
\* without its first segment, in memory and in Info.plist.
C20_SameCandidate ==
    /\ \A n \in Packages :
          /\ (cls[n] \in AppClasses /\ RewriteReturned(n)) =>
                new_appid[n] = Some(ClaimCandidate)
          /\ (cls[n] = "AppEx" /\ n # 0) =>
                new_appid[n] = Some(ClaimCandidate)
    /\ (ResignSucceeded
          /\ \A i \in 1..Len(StripTeam(ClaimCandidate)) :
                StripTeam(ClaimCandidate)[i] # STAR) =>
          \A n \in Packages :
              cls[n] \in AppClasses =>
                  /\ info[n][ID] = Join(StripTeam(ClaimCandidate))
                  /\ plist[n][1][ID] = Join(StripTeam(ClaimCandidate))

\* C20 witness: an app with one extension has been resigned without
\* override under a credential for T.a.c: both carry T.a.c as new_appid and
\* both identifiers are now a.c.
C20_Witness ==
    /\ ResignSucceeded
    /\ cfg.override = None /\ cfg.appid = AppIdAC
    /\ cls[0] = "App" /\ cls[3] = "AppEx"
    /\ new_appid[0] = Some(AppIdAC) /\ new_appid[3] = Some(AppIdAC)
    /\ cfg.plist[0][1][ID] = IdAB /\ cfg.plist[3][1][ID] = IdABX
    /\ info[0][ID] = <<"a", ".", "c">> /\ info[3][ID] = <<"a", ".", "c">>

====
